---- MODULE Spec2Model ----
(***************************************************************************)
(* Rako integration for Home Assistant: light setup (light.py), scene      *)
(* setup (scene.py) and the command round trips of the light and scene     *)
(* entities.                                                               *)
(*                                                                         *)
(* Spec      the two platform setups of one config entry, running          *)
(*           concurrently over one bridge's discovery result.              *)
(* SpecCmd   turn_on / turn_off / activate calls, possibly overlapping, on *)
(*           a room light, a channel light and a scene of one room.        *)
(* SpecRange one call on one light, for every brightness 0..255.           *)
(* SpecOff   turn_off on one light beside turn_on(brightness=0) on a twin.  *)
(* SpecNew   the construction of light adapters over a wider set of        *)
(*           cache snapshots.                                              *)
(* SpecReg   setups and unloads of config entries (__init__.py).           *)
(***************************************************************************)
EXTENDS Integers, Sequences, FiniteSets, TLC

\* ---------------------------------------------------------------- bounds
\* Rooms the bridge may know, 1..MaxRooms.
MaxRooms == 2
\* Channels a room may have, 1..MaxChannels.
MaxChannels == 1
\* Service calls made in one behaviour of SpecCmd.
MaxCalls == 2

\* ------------------------------------------------------ program constants
\* mutant: one attempt more than the budget
max_retries_plus_one == 3 + 1
\* light.py:48
max_retries == 3
\* bridge.mac of the one bridge of the config entry
MAC == "mac"
\* channel id python_rako gives a RoomLight descriptor (the whole room)
ROOM_CHANNEL == 0
\* light.py:166,219  scene.py:126  asyncio.wait_for(..., timeout=3.0)
TIMEOUT == 3
\* light.py:157,201  kwargs.get(ATTR_BRIGHTNESS, 255)
DEFAULT_BRIGHTNESS == 255
\* light.py:69  asyncio.sleep(1)
RETRY_SLEEP == 1

VARIABLES
    devices,          \* what bridge.discover_lights yields when it runs to the end
    l_pc,             \* light.async_setup_entry: "start", "iter", "sleep", "added", "raised"
    attempt,          \* light.py:49  loop variable of the retry loop
    l_pos,            \* descriptors the current discovery generator has yielded
    l_started,        \* times light setup started consuming bridge.discover_lights
    hass_lights,      \* light.py:42  the list handed to async_add_entities
    l_pass,           \* history: the adapters built since the current attempt began
    l_added,          \* the calls of async_add_entities made by light setup (its arguments)
    l_log,            \* history: the awaits and outcomes of light setup, in order
    s_pc,             \* scene.async_setup_entry: "start", "iter", "added", "raised"
    s_pos,            \* descriptors the scene discovery generator has yielded
    s_started,        \* times scene setup started consuming bridge.discover_lights
    hass_scenes,      \* scene.py:50  the list handed to async_add_entities
    s_added,          \* the calls of async_add_entities made by scene setup
    bridge_cache,     \* what bridge.get_cache_state() returns: [level_cache, scene_cache]
    level_cache,      \* bridge.level_cache  (room, channel, scene) -> level
    scene_cache,      \* bridge.scene_cache  room -> active scene
    entities,         \* the registered adapters that receive service calls
    calls,            \* the service calls started so far, in order of start
    events,           \* per adapter: what it published, sent, received and logged
    hass_data,        \* hass.data restricted to the key DOMAIN
    loaded,           \* the config entries the host holds as set up
    reg_log           \* history: the setups and unloads made, with what they returned

setup_vars == <<devices, l_pc, attempt, l_pos, l_started, hass_lights, l_pass, l_added,
                l_log, s_pc, s_pos, s_started, hass_scenes, s_added>>

cache_vars == <<bridge_cache, level_cache, scene_cache>>
cmd_vars == <<entities, calls, events>>
reg_vars == <<hass_data, loaded, reg_log>>

vars == <<setup_vars, cache_vars, cmd_vars, reg_vars>>

\* the elements of a sequence
Range(seq) == {seq[k] : k \in 1..Len(seq)}

\* ------------------------------------------------------------ descriptors
Rooms == 1..MaxRooms
Channels == 1..MaxChannels

RoomLight(r) == [kind |-> "room", room_id |-> r, channel_id |-> ROOM_CHANNEL]
ChannelLight(r, c) == [kind |-> "channel", room_id |-> r, channel_id |-> c]
\* a descriptor that is neither a ChannelLight nor a RoomLight (light.py:56)
OtherLight(r) == [kind |-> "other", room_id |-> r, channel_id |-> ROOM_CHANNEL]

RECURSIVE ChannelsOfRoom(_, _)
ChannelsOfRoom(r, n) ==
    IF n = 0 THEN <<>> ELSE Append(ChannelsOfRoom(r, n - 1), ChannelLight(r, n))

\* The discovery document of a bridge: for each room an entry that is absent (-1),
\* of an unknown kind (-2), or a room with its first n channels (n >= 0).
RoomShapes == {-2, -1} \cup (0..MaxChannels)

RECURSIVE DiscoveryOf(_, _)
DiscoveryOf(shape, r) ==
    IF r = 0 THEN <<>>
    ELSE DiscoveryOf(shape, r - 1) \o
         (CASE shape[r] = -1 -> <<>>
            [] shape[r] = -2 -> <<OtherLight(r)>>
            [] OTHER -> <<RoomLight(r)>> \o ChannelsOfRoom(r, shape[r]))

DiscoveryResults == {DiscoveryOf(shape, MaxRooms) : shape \in [Rooms -> RoomShapes]}

\* --------------------------------------------------------------- unique id
create_unique_id(mac, room_id, channel_id) == <<mac, room_id, channel_id>>

\* ------------------------------------------------------------------ caches
\* python_rako: an empty LevelCache / scene cache
EmptyCache == <<>>

\* dict.get(key, default) of a cache held as a function
Get(cache, key, default) == IF key \in DOMAIN cache THEN cache[key] ELSE default

\* python_rako LevelCache.get_channel_level(room_channel, scene): 0 when absent
get_channel_level(cache, room_id, channel_id, scene) ==
    Get(cache, <<room_id, channel_id, scene>>, 0)

\* python_rako.helpers.convert_to_brightness: scenes 1..4 are 100/75/50/25 %
convert_to_brightness(scene) ==
    CASE scene = 1 -> 255
      [] scene = 2 -> 192
      [] scene = 3 -> 128
      [] scene = 4 -> 64
      [] OTHER -> 0

\* python_rako.helpers.convert_to_scene: the nearest scene; 0 is off
convert_to_scene(brightness) ==
    IF brightness = 0 THEN 0
    ELSE IF brightness > 224 THEN 1
    ELSE IF brightness > 160 THEN 2
    ELSE IF brightness > 96 THEN 3
    ELSE 4

\* The cache snapshots a bridge may return from get_cache_state(): nothing cached,
\* or room 1 in scene 1 with levels for its channel 1 and no entry for other rooms.
CacheStates ==
    { [level_cache |-> EmptyCache, scene_cache |-> EmptyCache],
      [level_cache |-> (<<1, 1, 1>> :> 180) @@ (<<1, 1, 0>> :> 7),
       scene_cache |-> (1 :> 1)] }

\* ----------------------------------------------------------- light adapters
\* light.py:115-118
is_on(e) == e.brightness > 0

\* mutant: the channel light looks its level up without the room's cached scene
ChannelInitBrightness_ignores_scene(light) ==
    get_channel_level(level_cache, light.room_id, light.channel_id, 0)

\* mutant: a room without a cached scene counts as being in scene 1
RoomInitBrightness_default_scene_1(light) ==
    LET scene_of_room == Get(scene_cache, light.room_id, 1)
    IN  convert_to_brightness(scene_of_room)

\* light.py:187-192
ChannelInitBrightness(light) ==
    LET scene_of_room == Get(scene_cache, light.room_id, 0)
    IN  get_channel_level(level_cache, light.room_id, light.channel_id, scene_of_room)

\* light.py:144-147
RoomInitBrightness(light) ==
    LET scene_of_room == Get(scene_cache, light.room_id, 0)
    IN  convert_to_brightness(scene_of_room)

\* light.py:182-185, 83-88
RakoChannelLight(light) ==
    [kind |-> "channel", room_id |-> light.room_id, channel_id |-> light.channel_id,
     brightness |-> ChannelInitBrightness(light), available |-> TRUE]

\* light.py:139-142, 83-88
RakoRoomLight(light) ==
    [kind |-> "room", room_id |-> light.room_id, channel_id |-> light.channel_id,
     brightness |-> RoomInitBrightness(light), available |-> TRUE]

\* light.py:98-103
RakoLight_unique_id(e) == create_unique_id(MAC, e.room_id, e.channel_id)

\* light.py:52-59  the body of the async for loop: the adapters one descriptor adds
LightsOf(light) ==
    IF light.kind = "channel" THEN <<RakoChannelLight(light)>>
    ELSE IF light.kind = "room" THEN <<RakoRoomLight(light)>>
    ELSE <<>>

\* ----------------------------------------------------------- scene adapters
\* mutant: the off scene 0 is given a scene entity too
RAKO_SCENES_with_off == <<0, 1, 2, 3, 4>>

\* scene.py:33-38  the keys of the table, in the order a loop over it visits them
RAKO_SCENES == <<1, 2, 3, 4>>

\* scene.py:73-87
RakoScene(room_id, scene_number) ==
    [kind |-> "scene", room_id |-> room_id, scene_number |-> scene_number,
     available |-> TRUE]

\* scene.py:94-97
RakoScene_unique_id(e) == create_unique_id(MAC, e.room_id, e.scene_number)

\* scene.py:56-65  the body of the async for loop: the adapters one descriptor adds
ScenesOf(light) ==
    IF light.kind = "room"
    THEN [k \in 1..Len(RAKO_SCENES) |-> RakoScene(light.room_id, RAKO_SCENES[k])]
    ELSE <<>>

\* ------------------------------------------------------------------- Init
InitSetup ==
    /\ devices \in DiscoveryResults
    /\ l_pc = "start"
    /\ attempt = 0
    /\ l_pos = 0
    /\ l_started = 0
    /\ hass_lights = <<>>
    /\ l_pass = <<>>
    /\ l_added = <<>>
    /\ l_log = <<>>
    /\ s_pc = "start"
    /\ s_pos = 0
    /\ s_started = 0
    /\ hass_scenes = <<>>
    /\ s_added = <<>>
    /\ bridge_cache \in CacheStates
    /\ level_cache = EmptyCache
    /\ scene_cache = EmptyCache
    /\ entities = <<>>
    /\ calls = <<>>
    /\ events = <<>>
    /\ hass_data = <<>>
    /\ loaded = {}
    /\ reg_log = <<>>

Init == InitSetup

\* ------------------------------------------------------------ light setup
light_vars == <<l_pc, attempt, l_pos, l_started, hass_lights, l_pass, l_added, l_log>>
scene_vars == <<s_pc, s_pos, s_started, hass_scenes, s_added>>

\* light.py:42-51  the cache fetch returns; the retry loop begins attempt 0 and
\* opens the first discovery generator
LightFetchCache ==
    /\ l_pc = "start"
    /\ l_pc' = "iter"
    /\ attempt' = 0
    /\ l_pos' = 0
    /\ l_started' = l_started + 1
    /\ hass_lights' = <<>>
    /\ l_pass' = <<>>
    /\ level_cache' = bridge_cache.level_cache
    /\ scene_cache' = bridge_cache.scene_cache
    /\ l_log' = l_log \o <<[ev |-> "get_cache_state", n |-> 0], [ev |-> "attempt", n |-> 1]>>
    /\ UNCHANGED <<l_added, devices, scene_vars, bridge_cache, cmd_vars, reg_vars>>

\* light.py:51-59  the generator yields the next descriptor
LightYield ==
    /\ l_pc = "iter"
    /\ l_pos < Len(devices)
    /\ l_pos' = l_pos + 1
    /\ hass_lights' = hass_lights \o LightsOf(devices[l_pos + 1])
    /\ l_pass' = l_pass \o LightsOf(devices[l_pos + 1])
    /\ UNCHANGED <<l_pc, attempt, l_started, l_added, l_log, devices, scene_vars, cache_vars, cmd_vars, reg_vars>>

\* light.py:60,74  the generator is exhausted: break, then async_add_entities
LightExhausted ==
    /\ l_pc = "iter"
    /\ l_pos = Len(devices)
    /\ l_pc' = "added"
    /\ l_added' = Append(l_added, hass_lights)
    /\ l_log' = Append(l_log, [ev |-> "async_add_entities", n |-> 0])
    /\ UNCHANGED <<attempt, l_pos, l_started, hass_lights, l_pass, devices, scene_vars, cache_vars, cmd_vars, reg_vars>>

\* mutant: the setup also waits after the last failed attempt, before it raises
LightFail_always_sleeps ==
    /\ l_pc = "iter"
    /\ l_pc' = IF attempt < max_retries - 1 THEN "sleep" ELSE "raised"
    /\ l_log' = l_log \o <<[ev |-> "fail", n |-> attempt + 1],
                            [ev |-> "sleep", n |-> RETRY_SLEEP]>> \o
                  (IF attempt < max_retries - 1 THEN <<>>
                   ELSE <<[ev |-> "raise", n |-> 0]>>)
    /\ UNCHANGED <<attempt, l_pos, l_started, hass_lights, l_pass, l_added, devices,
                   scene_vars, cache_vars, cmd_vars, reg_vars>>

\* light.py:61-72  the generator raises at its next step
LightFail ==
    /\ l_pc = "iter"
    /\ l_pc' = IF attempt < max_retries - 1 THEN "sleep" ELSE "raised"
    /\ l_log' = l_log \o <<[ev |-> "fail", n |-> attempt + 1]>> \o
                  (IF attempt < max_retries - 1
                   THEN <<[ev |-> "sleep", n |-> RETRY_SLEEP]>>
                   ELSE <<[ev |-> "raise", n |-> 0]>>)
    /\ UNCHANGED <<attempt, l_pos, l_started, hass_lights, l_pass, l_added, devices,
                   scene_vars, cache_vars, cmd_vars, reg_vars>>

\* mutant: the cache snapshot is fetched again before every retry
LightRetry_refetches ==
    /\ l_pc = "sleep"
    /\ l_pc' = "iter"
    /\ attempt' = attempt + 1
    /\ l_pos' = 0
    /\ l_started' = l_started + 1
    /\ l_pass' = <<>>
    /\ level_cache' = bridge_cache.level_cache
    /\ scene_cache' = bridge_cache.scene_cache
    /\ l_log' = l_log \o <<[ev |-> "get_cache_state", n |-> 0],
                            [ev |-> "attempt", n |-> attempt + 2]>>
    /\ UNCHANGED <<hass_lights, l_added, devices, scene_vars, bridge_cache, cmd_vars, reg_vars>>

\* light.py:69,49-51  asyncio.sleep(1) returns; the next attempt opens a new generator
LightRetry ==
    /\ l_pc = "sleep"
    /\ l_pc' = "iter"
    /\ attempt' = attempt + 1
    /\ l_pos' = 0
    /\ l_started' = l_started + 1
    /\ l_pass' = <<>>
    /\ l_log' = Append(l_log, [ev |-> "attempt", n |-> attempt + 2])
    /\ UNCHANGED <<hass_lights, l_added, devices, scene_vars, cache_vars, cmd_vars, reg_vars>>

\* ------------------------------------------------------------ scene setup
\* scene.py:50-54  the setup opens its discovery generator
SceneStart ==
    /\ s_pc = "start"
    /\ s_pc' = "iter"
    /\ s_pos' = 0
    /\ s_started' = s_started + 1
    /\ hass_scenes' = <<>>
    /\ UNCHANGED <<s_added, devices, light_vars, cache_vars, cmd_vars, reg_vars>>

\* scene.py:54-65  the generator yields the next descriptor
SceneYield ==
    /\ s_pc = "iter"
    /\ s_pos < Len(devices)
    /\ s_pos' = s_pos + 1
    /\ hass_scenes' = hass_scenes \o ScenesOf(devices[s_pos + 1])
    /\ UNCHANGED <<s_pc, s_started, s_added, devices, light_vars, cache_vars, cmd_vars, reg_vars>>

\* scene.py:67  the generator is exhausted: async_add_entities
SceneExhausted ==
    /\ s_pc = "iter"
    /\ s_pos = Len(devices)
    /\ s_pc' = "added"
    /\ s_added' = Append(s_added, hass_scenes)
    /\ UNCHANGED <<s_pos, s_started, hass_scenes, devices, light_vars, cache_vars, cmd_vars, reg_vars>>

\* mutant: the failure is caught and the discovery started again
SceneFail_retries ==
    /\ s_pc = "iter"
    /\ s_pos' = 0
    /\ s_started' = s_started + 1
    /\ UNCHANGED <<s_pc, hass_scenes, s_added, devices, light_vars, cache_vars, cmd_vars, reg_vars>>

\* scene.py:54  the generator raises at its next step; nothing catches it
SceneFail ==
    /\ s_pc = "iter"
    /\ s_pc' = "raised"
    /\ UNCHANGED <<s_pos, s_started, hass_scenes, s_added, devices, light_vars, cache_vars, cmd_vars, reg_vars>>

\* ------------------------------------------------------------- service calls
\* The discovery result whose adapters receive the calls: one room with one channel.
House == <<RoomLight(1), ChannelLight(1, 1)>>

RECURSIVE LightsOfAll(_)
LightsOfAll(ds) == IF ds = <<>> THEN <<>> ELSE LightsOf(Head(ds)) \o LightsOfAll(Tail(ds))

\* ATTR_BRIGHTNESS absent from kwargs
NoBrightness == 0 - 1
\* kwargs of the turn_on calls of SpecCmd
KwargsSample == {NoBrightness, 100}
\* times the bridge may take to answer a command: within the deadline or not
Delays == {TIMEOUT - 1, TIMEOUT}
\* how a bridge command ends for the coroutine awaiting it
BridgeResults == {"ok", "RakoBridgeError"}

\* what an adapter publishes with async_write_ha_state
StateEvent(e) ==
    [ev |-> "state", brightness |-> e.brightness, available |-> e.available,
     is_on |-> e.brightness > 0]
SendEvent(c, cmd) == [ev |-> "send", call |-> c, cmd |-> cmd]
OutcomeEvent(c, result, waited) ==
    [ev |-> "outcome", call |-> c, result |-> result, waited |-> waited]
LogEvent(c) == [ev |-> "error_log", call |-> c]

InitCmd ==
    /\ devices = <<>>
    /\ l_pc = "start"
    /\ attempt = 0
    /\ l_pos = 0
    /\ l_started = 0
    /\ hass_lights = <<>>
    /\ l_pass = <<>>
    /\ l_added = <<>>
    /\ l_log = <<>>
    /\ s_pc = "start"
    /\ s_pos = 0
    /\ s_started = 0
    /\ hass_scenes = <<>>
    /\ s_added = <<>>
    /\ bridge_cache \in CacheStates
    /\ level_cache = bridge_cache.level_cache
    /\ scene_cache = bridge_cache.scene_cache
    /\ \E k \in 1..Len(RAKO_SCENES) :
          entities = LightsOfAll(House) \o <<ScenesOf(House[1])[k]>>
    /\ calls = <<>>
    /\ events = [i \in 1..(Len(House) + 1) |-> <<>>]
    /\ hass_data = <<>>
    /\ loaded = {}
    /\ reg_log = <<>>

\* asyncio.wait_for(coro, timeout=3.0): the bridge answers with result after d, or
\* the timeout expires first
WaitFor(result, d) ==
    IF d < TIMEOUT THEN [result |-> result, waited |-> d]
    ELSE [result |-> "TimeoutError", waited |-> TIMEOUT]

\* light.py:157,201
BrightnessOf(kw) == IF kw = NoBrightness THEN DEFAULT_BRIGHTNESS ELSE kw

\* the bridge command a call on entity e with brightness b sends
\* light.py:164-166
RoomCommand(e, b) == <<"set_room_scene", e.room_id, convert_to_scene(b)>>
\* light.py:216-218
ChannelCommand(e, b) == <<"set_channel_brightness", e.room_id, e.channel_id, b>>
\* mutant: the room id and the scene number are passed in the wrong order
SceneCommand_swapped(e) == <<"set_room_scene", e.scene_number, e.room_id>>
\* scene.py:125
SceneCommand(e) == <<"set_room_scene", e.room_id, e.scene_number>>

\* mutant: the command is sent first and the state published afterwards
TurnOnBegin_sends_first(i, op, b) ==
    LET c == Len(calls) + 1
        e == [entities[i] EXCEPT !.brightness = b]
        cmd == IF e.kind = "room" THEN <<"set_room_scene", e.room_id, convert_to_scene(b)>>
               ELSE <<"set_channel_brightness", e.room_id, e.channel_id, b>>
    IN  /\ entities' = [entities EXCEPT ![i] = e]
        /\ events' = [events EXCEPT ![i] = @ \o <<SendEvent(c, cmd), StateEvent(e)>>]
        /\ calls' = Append(calls, [entity |-> i, op |-> op, brightness |-> b,
                                   pc |-> "awaiting"])

\* mutant: a room light stores the brightness of the scene it sends
TurnOnBegin_stores_scene_brightness(i, op, b) ==
    LET c == Len(calls) + 1
        stored == IF entities[i].kind = "room"
                  THEN convert_to_brightness(convert_to_scene(b)) ELSE b
        e == [entities[i] EXCEPT !.brightness = stored]
        cmd == IF e.kind = "room" THEN RoomCommand(e, b) ELSE ChannelCommand(e, b)
    IN  /\ entities' = [entities EXCEPT ![i] = e]
        /\ events' = [events EXCEPT ![i] = @ \o <<StateEvent(e), SendEvent(c, cmd)>>]
        /\ calls' = Append(calls, [entity |-> i, op |-> op, brightness |-> b,
                                   pc |-> "awaiting"])

\* light.py:155-167 / 199-220  async_turn_on up to the await: the optimistic update,
\* the publication, then the bridge command
TurnOnBegin(i, op, b) ==
    LET c == Len(calls) + 1
        e == [entities[i] EXCEPT !.brightness = b]
        cmd == IF e.kind = "room" THEN RoomCommand(e, b) ELSE ChannelCommand(e, b)
    IN  /\ entities' = [entities EXCEPT ![i] = e]
        /\ events' = [events EXCEPT ![i] = @ \o <<StateEvent(e), SendEvent(c, cmd)>>]
        /\ calls' = Append(calls, [entity |-> i, op |-> op, brightness |-> b,
                                   pc |-> "awaiting"])

\* light.py:155 / 199
TurnOn(i, kw) ==
    /\ Len(calls) < MaxCalls
    /\ entities[i].kind \in {"room", "channel"}
    /\ TurnOnBegin(i, "turn_on", BrightnessOf(kw))
    /\ UNCHANGED <<setup_vars, cache_vars, reg_vars>>

\* mutant: turn_off calls async_turn_on without the brightness argument
TurnOff_without_brightness(i) ==
    /\ Len(calls) < MaxCalls
    /\ entities[i].kind \in {"room", "channel"}
    /\ TurnOnBegin(i, "turn_off", DEFAULT_BRIGHTNESS)
    /\ UNCHANGED <<setup_vars, cache_vars, reg_vars>>

\* light.py:120-122
TurnOff(i) ==
    /\ Len(calls) < MaxCalls
    /\ entities[i].kind \in {"room", "channel"}
    /\ TurnOnBegin(i, "turn_off", 0)
    /\ UNCHANGED <<setup_vars, cache_vars, reg_vars>>

\* mutant: activating a scene also sets the brightness of the room's room light
Activate_updates_room(i) ==
    /\ Len(calls) < MaxCalls
    /\ entities[i].kind = "scene"
    /\ LET c == Len(calls) + 1
       IN  /\ events' = [events EXCEPT ![i] = Append(@, SendEvent(c, SceneCommand(entities[i])))]
           /\ calls' = Append(calls, [entity |-> i, op |-> "activate", brightness |-> 0,
                                      pc |-> "awaiting"])
    /\ entities' = [j \in 1..Len(entities) |->
                      IF entities[j].kind = "room" /\ entities[j].room_id = entities[i].room_id
                      THEN [entities[j] EXCEPT
                              !.brightness = convert_to_brightness(entities[i].scene_number)]
                      ELSE entities[j]]
    /\ UNCHANGED <<setup_vars, cache_vars, reg_vars>>

\* scene.py:114-127  async_activate up to the await
Activate(i) ==
    /\ Len(calls) < MaxCalls
    /\ entities[i].kind = "scene"
    /\ LET c == Len(calls) + 1
       IN  /\ events' = [events EXCEPT ![i] = Append(@, SendEvent(c, SceneCommand(entities[i])))]
           /\ calls' = Append(calls, [entity |-> i, op |-> "activate", brightness |-> 0,
                                      pc |-> "awaiting"])
    /\ UNCHANGED <<entities, setup_vars, cache_vars, reg_vars>>

\* mutant: the except clause reverts the optimistic brightness to off
RoomOnError_reverts(i, c, o) ==
    LET e == [entities[i] EXCEPT !.available = FALSE, !.brightness = 0]
    IN  /\ entities' = [entities EXCEPT ![i] = e]
        /\ events' = [events EXCEPT ![i] =
                        @ \o <<o>> \o (IF entities[i].available THEN <<LogEvent(c)>> ELSE <<>>)
                          \o <<StateEvent(e)>>]
        /\ calls' = [calls EXCEPT ![c].pc = "returned"]

\* light.py:170-176  the except clause of RakoRoomLight.async_turn_on
RoomOnError(i, c, o) ==
    LET e == [entities[i] EXCEPT !.available = FALSE]
    IN  /\ entities' = [entities EXCEPT ![i] = e]
        /\ events' = [events EXCEPT ![i] =
                        @ \o <<o>> \o (IF entities[i].available THEN <<LogEvent(c)>> ELSE <<>>)
                          \o <<StateEvent(e)>>]
        /\ calls' = [calls EXCEPT ![c].pc = "returned"]

\* light.py:224-235  the except clause of RakoChannelLight.async_turn_on
ChannelOnError(i, c, o) ==
    LET e == [entities[i] EXCEPT !.available = FALSE]
    IN  /\ entities' = [entities EXCEPT ![i] = e]
        /\ events' = [events EXCEPT ![i] =
                        @ \o <<o, LogEvent(c)>>
                          \o (IF entities[i].available THEN <<LogEvent(c)>> ELSE <<>>)
                          \o <<StateEvent(e)>>]
        /\ calls' = [calls EXCEPT ![c].pc = "returned"]

\* mutant: the except clause sends the command once more
SceneOnError_resends(i, c, o) ==
    /\ entities' = [entities EXCEPT ![i].available = FALSE]
    /\ events' = [events EXCEPT ![i] =
                    @ \o <<o, LogEvent(c)>>
                      \o (IF entities[i].available THEN <<LogEvent(c)>> ELSE <<>>)
                      \o <<SendEvent(c, <<"set_room_scene", entities[i].room_id,
                                          entities[i].scene_number>>)>>]
    /\ calls' = [calls EXCEPT ![c].pc = "returned"]

\* scene.py:131-139  the except clause of RakoScene.async_activate
SceneOnError(i, c, o) ==
    /\ entities' = [entities EXCEPT ![i].available = FALSE]
    /\ events' = [events EXCEPT ![i] =
                    @ \o <<o, LogEvent(c)>>
                      \o (IF entities[i].available THEN <<LogEvent(c)>> ELSE <<>>)]
    /\ calls' = [calls EXCEPT ![c].pc = "returned"]

\* mutant: a success does not restore the available flag
OnSuccess_keeps_flag(i, c, o) ==
    /\ entities' = entities
    /\ events' = [events EXCEPT ![i] = Append(@, o)]
    /\ calls' = [calls EXCEPT ![c].pc = "returned"]

\* mutant: a success restores the flag only for the call issued last on the adapter
OnSuccess_if_latest(i, c, o) ==
    /\ entities' = IF \A d \in (c + 1)..Len(calls) : calls[d].entity # i
                   THEN [entities EXCEPT ![i].available = TRUE]
                   ELSE entities
    /\ events' = [events EXCEPT ![i] = Append(@, o)]
    /\ calls' = [calls EXCEPT ![c].pc = "returned"]

\* light.py:168,222  scene.py:129  the await returned: self._available = True
OnSuccess(i, c, o) ==
    /\ entities' = [entities EXCEPT ![i].available = TRUE]
    /\ events' = [events EXCEPT ![i] = Append(@, o)]
    /\ calls' = [calls EXCEPT ![c].pc = "returned"]

\* light.py:165-176, 215-235  scene.py:124-139  the awaited bridge command ends
Resume(c, result, d) ==
    /\ c \in 1..Len(calls)
    /\ calls[c].pc = "awaiting"
    /\ LET i == calls[c].entity
           w == WaitFor(result, d)
           o == OutcomeEvent(c, w.result, w.waited)
       IN  IF w.result = "ok" THEN OnSuccess(i, c, o)
           ELSE IF entities[i].kind = "room" THEN RoomOnError(i, c, o)
           ELSE IF entities[i].kind = "channel" THEN ChannelOnError(i, c, o)
           ELSE SceneOnError(i, c, o)
    /\ UNCHANGED <<setup_vars, cache_vars, reg_vars>>

NextCmd ==
    \/ \E i \in 1..Len(entities), kw \in KwargsSample : TurnOn(i, kw)
    \/ \E i \in 1..Len(entities) : TurnOff(i)
    \/ \E i \in 1..Len(entities) : Activate(i)
    \/ \E c \in 1..MaxCalls, r \in BridgeResults, d \in Delays : Resume(c, r, d)

SpecCmd == InitCmd /\ [][NextCmd]_vars

\* one call on one light, with every brightness a caller may pass
KwargsRange == {NoBrightness} \cup (0..255)

NextRange ==
    \/ \E i \in 1..Len(entities), kw \in KwargsRange : calls = <<>> /\ TurnOn(i, kw)
    \/ \E i \in 1..Len(entities) : calls = <<>> /\ TurnOff(i)
    \/ \E r \in BridgeResults, d \in Delays : Resume(1, r, d)

SpecRange == InitCmd /\ [][NextRange]_vars

\* ------------------------------------------------- turn_off beside turn_on(0)
\* Two adapters of the same light in the same state, as a light is after it was
\* constructed or after earlier calls; the traces start empty at this point.
TwinStates ==
    { [e EXCEPT !.available = a, !.brightness = b] :
        e \in Range(LightsOfAll(House)), a \in BOOLEAN, b \in {0, 100, 255} }

InitOff ==
    /\ devices = <<>>
    /\ l_pc = "start"
    /\ attempt = 0
    /\ l_pos = 0
    /\ l_started = 0
    /\ hass_lights = <<>>
    /\ l_pass = <<>>
    /\ l_added = <<>>
    /\ l_log = <<>>
    /\ s_pc = "start"
    /\ s_pos = 0
    /\ s_started = 0
    /\ hass_scenes = <<>>
    /\ s_added = <<>>
    /\ bridge_cache \in CacheStates
    /\ level_cache = bridge_cache.level_cache
    /\ scene_cache = bridge_cache.scene_cache
    /\ \E e \in TwinStates : entities = <<e, e>>
    /\ calls = <<>>
    /\ events = <<<<>>, <<>>>>
    /\ hass_data = <<>>
    /\ loaded = {}
    /\ reg_log = <<>>

\* no call was made on adapter i yet
Uncalled(i) == \A c \in 1..Len(calls) : calls[c].entity # i

NextOff ==
    \/ Uncalled(1) /\ TurnOff(1)
    \/ Uncalled(2) /\ TurnOn(2, 0)
    \/ \E c \in 1..MaxCalls, r \in BridgeResults, d \in Delays : Resume(c, r, d)

SpecOff == InitOff /\ [][NextOff]_vars

\* ------------------------------------------------- construction of one adapter
MaxAdapters == 2

\* every function from a subset of keys into values: the dicts over these keys
Dicts(keys, values) == UNION {[d -> values] : d \in SUBSET keys}

\* The cache snapshots a light adapter may be built from: rooms 5 and 7 with or
\* without a cached scene, levels of channel 2 cached or not for some scenes.
CacheInputs ==
    { [level_cache |-> lc, scene_cache |-> sc] :
        lc \in Dicts({<<5, 2, 1>>, <<5, 2, 0>>, <<7, 2, 3>>}, {180, 7}),
        sc \in Dicts({5, 7}, {1, 3}) }

\* the descriptors of lights the constructors are applied to
LightInputs == {RoomLight(5), RoomLight(7), ChannelLight(5, 2), ChannelLight(7, 2)}

InitNew ==
    /\ devices = <<>>
    /\ l_pc = "start"
    /\ attempt = 0
    /\ l_pos = 0
    /\ l_started = 0
    /\ hass_lights = <<>>
    /\ l_pass = <<>>
    /\ l_added = <<>>
    /\ l_log = <<>>
    /\ s_pc = "start"
    /\ s_pos = 0
    /\ s_started = 0
    /\ hass_scenes = <<>>
    /\ s_added = <<>>
    /\ bridge_cache \in CacheInputs
    /\ level_cache = bridge_cache.level_cache
    /\ scene_cache = bridge_cache.scene_cache
    /\ entities = <<>>
    /\ calls = <<>>
    /\ events = <<>>
    /\ hass_data = <<>>
    /\ loaded = {}
    /\ reg_log = <<>>

\* light.py:52-55, 83-88  RakoChannelLight(bridge, light) / RakoRoomLight(bridge, light)
Construct(light) ==
    /\ Len(entities) < MaxAdapters
    /\ entities' = entities \o LightsOf(light)
    /\ events' = events \o <<<<>>>>
    /\ UNCHANGED <<setup_vars, cache_vars, calls, reg_vars>>

NextNew == \E light \in LightInputs : Construct(light)

SpecNew == InitNew /\ [][NextNew]_vars

\* ------------------------------------------------- the registry in hass.data
\* Config entries the host holds, 1..MaxBridges, one per bridge.
MaxBridges == 2
\* Setups and unloads made in one behaviour of SpecReg.
MaxOps == 5

\* const.py: the key of the integration in hass.data
RAKO_DOMAIN == "rako"

\* the MAC address of bridge k
MacOf(k) == <<"mac", k>>

\* config_flow.py: the unique id given to the config entry of a bridge
entry_unique_id(mac) == mac

\* a ConfigEntry as __init__.py reads it: entry_id, data[CONF_MAC], unique_id
ConfigEntry(k) ==
    [entry_id |-> k, mac |-> MacOf(k), unique_id |-> entry_unique_id(MacOf(k))]

ConfigEntries == {ConfigEntry(k) : k \in 1..MaxBridges}

\* __init__.py:21-28  RakoBridge(..., mac=entry.data[CONF_MAC], entry_id=entry.entry_id)
RakoBridge(entry) == [mac |-> entry.mac, entry_id |-> entry.entry_id]

\* a dict without the key k (del d[k])
Without(d, k) == [x \in (DOMAIN d) \ {k} |-> d[x]]

\* a dict with d[k] = v
With(d, k, v) == [x \in (DOMAIN d) \cup {k} |-> IF x = k THEN v ELSE d[x]]

InitReg ==
    /\ devices = <<>>
    /\ l_pc = "start"
    /\ attempt = 0
    /\ l_pos = 0
    /\ l_started = 0
    /\ hass_lights = <<>>
    /\ l_pass = <<>>
    /\ l_added = <<>>
    /\ l_log = <<>>
    /\ s_pc = "start"
    /\ s_pos = 0
    /\ s_started = 0
    /\ hass_scenes = <<>>
    /\ s_added = <<>>
    /\ bridge_cache = [level_cache |-> EmptyCache, scene_cache |-> EmptyCache]
    /\ level_cache = EmptyCache
    /\ scene_cache = EmptyCache
    /\ entities = <<>>
    /\ calls = <<>>
    /\ events = <<>>
    /\ hass_data = <<>>
    /\ loaded = {}
    /\ reg_log = <<>>

\* __init__.py:20-48  async_setup_entry, with the lookup the two platform setups
\* it forwards to make first (light.py:39, scene.py:47)
SetupEntry(entry) ==
    /\ Len(reg_log) < MaxOps
    /\ entry \notin loaded
    /\ LET registry == IF RAKO_DOMAIN \in DOMAIN hass_data
                       THEN hass_data[RAKO_DOMAIN] ELSE <<>>
           data == [rako_bridge_client |-> RakoBridge(entry)]
           stored == With(registry, RakoBridge(entry).mac, data)
           found == entry.unique_id \in DOMAIN stored
       IN  /\ hass_data' = With(hass_data, RAKO_DOMAIN, stored)
           /\ loaded' = IF found THEN loaded \cup {entry} ELSE loaded
           /\ reg_log' = Append(reg_log, [op |-> "setup", entry |-> entry.entry_id,
                                          ok |-> found])
    /\ UNCHANGED <<setup_vars, cache_vars, cmd_vars>>

\* mutant: the unload leaves the emptied registry in hass.data
UnloadEntry_keeps_empty_registry(entry, unload_ok) ==
    /\ Len(reg_log) < MaxOps
    /\ entry \in loaded
    /\ IF unload_ok
       THEN /\ hass_data' = [hass_data EXCEPT
                                ![RAKO_DOMAIN] = Without(@, entry.unique_id)]
            /\ loaded' = loaded \ {entry}
       ELSE UNCHANGED <<hass_data, loaded>>
    /\ reg_log' = Append(reg_log, [op |-> "unload", entry |-> entry.entry_id,
                                   ok |-> unload_ok])
    /\ UNCHANGED <<setup_vars, cache_vars, cmd_vars>>

\* __init__.py:51-60  async_unload_entry; unload_ok is what async_unload_platforms
\* returned
UnloadEntry(entry, unload_ok) ==
    /\ Len(reg_log) < MaxOps
    /\ entry \in loaded
    /\ IF unload_ok
       THEN LET left == Without(hass_data[RAKO_DOMAIN], entry.unique_id)
            IN  /\ hass_data' = IF DOMAIN left = {}
                                THEN Without(hass_data, RAKO_DOMAIN)
                                ELSE [hass_data EXCEPT ![RAKO_DOMAIN] = left]
                /\ loaded' = loaded \ {entry}
       ELSE UNCHANGED <<hass_data, loaded>>
    /\ reg_log' = Append(reg_log, [op |-> "unload", entry |-> entry.entry_id,
                                   ok |-> unload_ok])
    /\ UNCHANGED <<setup_vars, cache_vars, cmd_vars>>

NextReg ==
    \/ \E entry \in ConfigEntries : SetupEntry(entry)
    \/ \E entry \in ConfigEntries, unload_ok \in BOOLEAN : UnloadEntry(entry, unload_ok)

SpecReg == InitReg /\ [][NextReg]_vars


Next ==
    \/ LightFetchCache
    \/ LightYield
    \/ LightExhausted
    \/ LightFail
    \/ LightRetry
    \/ SceneStart
    \/ SceneYield
    \/ SceneExhausted
    \/ SceneFail

Spec == Init /\ [][Next]_vars

\* ===================================================================== claims
\* the entities one call of async_add_entities registered
Registered(added) == IF added = <<>> THEN {} ELSE Range(added[1])

unique_id(e) == IF e.kind = "scene" THEN RakoScene_unique_id(e) ELSE RakoLight_unique_id(e)

\* C1: when light setup registers its adapters after one or more failed attempts,
\* the registered list is exactly the list built during the last, complete pass
\* (stated as the claim; the code keeps the adapters of the failed attempts).
C1_RegisteredIsLastPass ==
    l_pc = "added" => l_added = <<l_pass>>

\* C2: the unique ids of all the entities light setup and scene setup register for
\* one bridge are pairwise distinct (stated as the claim; a channel light with
\* channel n and scene n of the same room get the same id).
C2_UniqueIdsDistinct ==
    \A x, y \in Registered(l_added) \cup Registered(s_added) :
        x # y => unique_id(x) # unique_id(y)

\* C6: light setup starts consuming the discovery sequence at most 3 times; the
\* third failure is not retried but raised, and then async_add_entities has not
\* been called.
C6_AttemptBudget ==
    /\ l_started <= 3
    /\ l_pc = "sleep" => l_started < 3
    /\ l_pc = "raised" => l_started = 3 /\ l_added = <<>>

\* C6 witness: three attempts failed, adapters had been built, none is registered.
C6_Witness ==
    l_pc = "raised" /\ l_started = 3 /\ hass_lights # <<>> /\ l_added = <<>>

\* the scene numbers of the adapters of room r in a list of scene adapters
SceneNumbersOf(scenes, r) ==
    LET of_room == SelectSeq(scenes, LAMBDA e : e.room_id = r)
    IN  [k \in 1..Len(of_room) |-> of_room[k].scene_number]

\* C8: scene setup has built, for each room light the discovery has yielded so far,
\* exactly the 4 scene adapters numbered 1, 2, 3, 4 and nothing else; the ids of
\* the 4 scenes of a room differ from each other and from the id of the room light.
C8_FourScenesPerRoom ==
    \A r \in Rooms :
        LET yielded == RoomLight(r) \in {devices[k] : k \in 1..s_pos}
            mine == {e \in Range(hass_scenes) : e.room_id = r}
        IN  /\ SceneNumbersOf(hass_scenes, r) = IF yielded THEN <<1, 2, 3, 4>> ELSE <<>>
            /\ Cardinality({RakoScene_unique_id(e) : e \in mine}) = Cardinality(mine)
            /\ \A e \in mine :
                 RakoScene_unique_id(e) # RakoLight_unique_id(RakoRoomLight(RoomLight(r)))
            /\ \A e \in Range(hass_scenes) : e.room_id \in Rooms

\* C8 witness: two rooms, one of them with a channel light, gave 8 registered scenes.
C8_Witness ==
    /\ s_pc = "added"
    /\ Len(s_added[1]) = 8
    /\ \E k \in 1..Len(devices) : devices[k].kind = "channel"

\* C9: scene setup starts the discovery once; when it fails the call has raised,
\* no second discovery was started and async_add_entities was never called.
C9_SceneNoRetry ==
    /\ s_started <= 1
    /\ s_pc # "start" => s_started = 1
    /\ s_pc = "raised" => s_added = <<>>
    /\ s_pc = "added" => s_added = <<hass_scenes>>

\* C9 witness: the discovery failed after scene adapters had been built.
C9_Witness ==
    s_pc = "raised" /\ hass_scenes # <<>> /\ s_added = <<>> /\ s_started = 1

\* ------------------------------------------------ claims on the service calls
IsLight(i) == entities[i].kind \in {"room", "channel"}

\* the positions of the events of kind ev that call c left in the trace of adapter i
EventsOf(i, ev, c) ==
    {k \in 1..Len(events[i]) : events[i][k].ev = ev /\ events[i][k].call = c}

\* the outcome of call c, once its bridge command has ended
ResultOf(c) ==
    LET i == calls[c].entity
    IN  events[i][CHOOSE k \in EventsOf(i, "outcome", c) : TRUE].result

\* call c is the call most recently started on its adapter
LatestOn(c) == \A d \in (c + 1)..Len(calls) : calls[d].entity # calls[c].entity

\* the bridge command of call c ends in this step, with a result in results
EndsNow(c, results) ==
    /\ calls[c].pc = "awaiting"
    /\ calls'[c].pc # "awaiting"
    /\ \E k \in (Len(events[calls[c].entity]) + 1)..Len(events'[calls[c].entity]) :
         LET x == events'[calls[c].entity][k]
         IN  x.ev = "outcome" /\ x.call = c /\ x.result \in results

Failures == {"RakoBridgeError", "TimeoutError"}

FailedAt100(kind) ==
    \E c \in 1..Len(calls) :
        LET i == calls[c].entity
        IN  /\ entities[i].kind = kind
            /\ calls[c].op = "turn_on"
            /\ calls[c].pc = "returned"
            /\ calls[c].brightness = 100
            /\ ResultOf(c) \in Failures
            /\ entities[i].brightness = 100
            /\ ~entities[i].available

C4_AvailabilityFollowsOutcome ==
    [][/\ \A c \in 1..Len(calls) :
            /\ EndsNow(c, Failures) => ~entities'[calls[c].entity].available
            /\ EndsNow(c, {"ok"}) => entities'[calls[c].entity].available
       /\ Len(entities') = Len(entities)
       /\ \A i \in 1..Len(entities) :
            /\ entities'[i].kind = entities[i].kind
            /\ entities'[i].room_id = entities[i].room_id]_vars

\* C4 witness: on one adapter a command timed out and a later one succeeded, and
\* the adapter is available.
C4_Witness ==
    \E c, d \in 1..Len(calls) :
        /\ c < d
        /\ calls[c].entity = calls[d].entity
        /\ calls[c].pc = "returned" /\ calls[d].pc = "returned"
        /\ ResultOf(c) = "TimeoutError" /\ ResultOf(d) = "ok"
        /\ LET i == calls[c].entity
           IN  /\ entities[i].available
               /\ \A j \in EventsOf(i, "outcome", c), k \in EventsOf(i, "outcome", d) : j < k

\* C5: a turn_on or turn_off on a channel light that requests brightness b has
\* published a state carrying b immediately before its set_channel_brightness
\* command was sent, and the outcome of that command comes after both; while the
\* command is pending the local brightness is b.
C5_OptimisticBeforeCommand ==
    \A c \in 1..Len(calls) :
        LET i == calls[c].entity
        IN  entities[i].kind = "channel" =>
              /\ calls[c].brightness \in 0..255
              /\ Cardinality(EventsOf(i, "send", c)) = 1
              /\ \A j \in EventsOf(i, "send", c) :
                   /\ j > 1
                   /\ events[i][j - 1].ev = "state"
                   /\ events[i][j - 1].brightness = calls[c].brightness
                   /\ events[i][j].cmd = ChannelCommand(entities[i], calls[c].brightness)
                   /\ \A k \in EventsOf(i, "outcome", c) : j < k
              /\ (calls[c].pc = "awaiting" /\ LatestOn(c)) =>
                   entities[i].brightness = calls[c].brightness

\* C5 witness: turn_on(200) on the channel light is pending, its state published.
C5_Witness ==
    \E c \in 1..Len(calls) :
        LET i == calls[c].entity
        IN  /\ entities[i].kind = "channel"
            /\ calls[c].pc = "awaiting"
            /\ calls[c].brightness = 200
            /\ entities[i].brightness = 200
            /\ EventsOf(i, "outcome", c) = {}

\* C7: an error log event is recorded only by a failure that finds its adapter
\* available: for every logged call, the command that ended last on the adapter
\* before it had succeeded, or there was none (stated as the claim; the channel
\* light and the scene log every failure).
C7_LogOnlyOnTransition ==
    \A i \in 1..Len(entities) : \A k \in 1..Len(events[i]) :
        events[i][k].ev = "error_log" =>
            LET mine == CHOOSE j \in EventsOf(i, "outcome", events[i][k].call) : TRUE
                before == {j \in 1..(mine - 1) : events[i][j].ev = "outcome"}
            IN  \A j \in before :
                    (\A m \in before : m <= j) => events[i][j].result = "ok"

\* the commands call c has sent to the bridge
SentBy(c) == EventsOf(calls[c].entity, "send", c)

\* C10: every started turn_on, turn_off or activate has sent exactly one command
\* to the bridge, also after its command failed or timed out, and that command
\* is in the trace of no other adapter.
C10_OneCommandPerCall ==
    \A c \in 1..Len(calls) :
        /\ Cardinality(SentBy(c)) = 1
        /\ \A i \in 1..Len(entities) :
             i # calls[c].entity => EventsOf(i, "send", c) = {}

\* C10 witness: a turn_off that timed out and an activate that got a bridge error
\* have both returned.
C10_Witness ==
    \E c, d \in 1..Len(calls) :
        /\ calls[c].op = "turn_off" /\ calls[c].pc = "returned"
        /\ ResultOf(c) = "TimeoutError"
        /\ calls[d].op = "activate" /\ calls[d].pc = "returned"
        /\ ResultOf(d) = "RakoBridgeError"

\* ------------------------------------------ claims on turn_off and construction
\* the call made on adapter i in SpecOff
CallOn(i) == CHOOSE c \in 1..Len(calls) : calls[c].entity = i

\* a trace without the numbers of the calls its events belong to
Untagged(trace) ==
    [k \in 1..Len(trace) |->
        IF trace[k].ev = "state" THEN trace[k] ELSE [trace[k] EXCEPT !.call = 0]]

\* the twins' calls are at the same point: both pending, or both ended alike
SameStage ==
    /\ ~Uncalled(1) /\ ~Uncalled(2)
    /\ LET c == CallOn(1)
           d == CallOn(2)
       IN  /\ calls[c].pc = calls[d].pc
           /\ calls[c].pc # "awaiting" =>
                \A j \in EventsOf(1, "outcome", c), k \in EventsOf(2, "outcome", d) :
                    /\ events[1][j].result = events[2][k].result
                    /\ events[1][j].waited = events[2][k].waited

\* C11: from the same state of a light, turn_off() and turn_on(brightness = 0)
\* that meet the same bridge outcome leave the same adapter state (brightness 0,
\* the same available flag) and the same trace: the same published states, the
\* same bridge command with the same arguments, the same log events.
C11_TurnOffIsTurnOnZero ==
    SameStage =>
        /\ entities[1] = entities[2]
        /\ entities[1].brightness = 0
        /\ Untagged(events[1]) = Untagged(events[2])
        /\ calls[CallOn(1)].brightness = calls[CallOn(2)].brightness

\* C11 witness: on a room light that was unavailable, turn_off and its twin
\* turn_on(0) both timed out.
C11_Witness ==
    /\ SameStage
    /\ entities[1].kind = "room"
    /\ calls[CallOn(1)].op = "turn_off" /\ calls[CallOn(2)].op = "turn_on"
    /\ calls[CallOn(1)].pc = "returned"
    /\ ResultOf(CallOn(1)) = "TimeoutError"
    /\ events[1][1].ev = "state" /\ events[1][1].brightness = 0 /\ ~events[1][1].available
    /\ events[1][2].cmd = <<"set_room_scene", 1, 0>>

\* C12: a channel light is constructed with the level-cache entry for its room,
\* its channel and the scene the scene cache holds for its room (scene 0 when the
\* room has none), and with brightness 0 when the level cache has no such entry.
C12_ChannelInitialBrightness ==
    \A i \in 1..Len(entities) :
        entities[i].kind = "channel" =>
            LET e == entities[i]
                scene == IF e.room_id \in DOMAIN scene_cache
                         THEN scene_cache[e.room_id] ELSE 0
                key == <<e.room_id, e.channel_id, scene>>
            IN  e.brightness = IF key \in DOMAIN level_cache THEN level_cache[key] ELSE 0

\* C12 witness: level cache (room 5, channel 2, scene 1) = 180 and scene cache
\* {5: 1}; the channel light of room 5, channel 2 starts at 180.
C12_Witness ==
    /\ scene_cache = (5 :> 1)
    /\ <<5, 2, 1>> \in DOMAIN level_cache /\ level_cache[<<5, 2, 1>>] = 180
    /\ \E i \in 1..Len(entities) :
         /\ entities[i].kind = "channel"
         /\ entities[i].room_id = 5 /\ entities[i].channel_id = 2
         /\ entities[i].brightness = 180

\* C13: a room light whose room has no entry in the scene cache is constructed
\* with brightness 0 and is off; one whose room has the cached scene s is
\* constructed with convert_to_brightness(s).
C13_RoomInitialBrightness ==
    \A i \in 1..Len(entities) :
        entities[i].kind = "room" =>
            LET e == entities[i]
            IN  IF e.room_id \in DOMAIN scene_cache
                THEN e.brightness = convert_to_brightness(scene_cache[e.room_id])
                ELSE e.brightness = 0 /\ ~is_on(e)

\* C13 witness: room 7 has no cached scene while room 5 is in scene 3; the room
\* lights of both rooms were constructed, room 7 off and room 5 at 128.
C13_Witness ==
    /\ scene_cache = (5 :> 3)
    /\ \E i, j \in 1..Len(entities) :
         /\ entities[i].kind = "room" /\ entities[i].room_id = 7
         /\ entities[i].brightness = 0 /\ ~is_on(entities[i])
         /\ entities[j].kind = "room" /\ entities[j].room_id = 5
         /\ entities[j].brightness = 128 /\ is_on(entities[j])

\* C14: activate() sends set_room_scene with the adapter's own room id and its own
\* scene number, which is in 1..4 and never changes, and sends nothing else; the
\* command ends within 3 time units, at 3 as a timeout; when it succeeds the
\* adapter is available, when it fails or times out the adapter is unavailable
\* and the call has returned.
C14_Activate ==
    [][\A c \in 1..Len(calls') :
         calls'[c].op = "activate" =>
           LET i == calls'[c].entity
               new == (Len(events[i]) + 1)..Len(events'[i])
           IN  /\ entities'[i].kind = "scene"
               /\ entities'[i].scene_number \in 1..4
               /\ entities'[i].scene_number = entities[i].scene_number
               /\ entities'[i].room_id = entities[i].room_id
               /\ c > Len(calls) =>
                    /\ events'[i] =
                         Append(events[i],
                                [ev |-> "send", call |-> c,
                                 cmd |-> <<"set_room_scene", entities[i].room_id,
                                           entities[i].scene_number>>])
                    /\ entities' = entities
               /\ c <= Len(calls) =>
                    /\ EndsNow(c, {"ok"}) =>
                         entities'[i].available /\ calls'[c].pc = "returned"
                    /\ EndsNow(c, Failures) =>
                         ~entities'[i].available /\ calls'[c].pc = "returned"
                    /\ EndsNow(c, {"ok"} \cup Failures) =>
                         \A k \in new :
                             /\ events'[i][k].ev # "send"
                             /\ events'[i][k].ev = "outcome" =>
                                  /\ events'[i][k].waited <= 3
                                  /\ events'[i][k].waited = 3 <=>
                                       events'[i][k].result = "TimeoutError"
    ]_vars

\* C14 witness: scene 3 of room 1 was activated twice; the first command got a
\* bridge error and the second succeeded last, so the adapter is available.
C14_Witness ==
    /\ Len(calls) = 2
    /\ calls[1].op = "activate" /\ calls[2].op = "activate"
    /\ calls[1].pc = "returned" /\ calls[2].pc = "returned"
    /\ ResultOf(1) = "RakoBridgeError" /\ ResultOf(2) = "ok"
    /\ LET i == calls[1].entity
       IN  /\ entities[i].scene_number = 3
           /\ entities[i].available
           /\ events[i][Len(events[i])].result = "ok"
           /\ events[i][1].cmd = <<"set_room_scene", 1, 3>>

\* the positions of the events of kind ev in the log of the light setup
Logged(ev) == {k \in 1..Len(l_log) : l_log[k].ev = ev}

\* the initial brightness of adapter e under the snapshot the bridge returned
FromSnapshot(e) ==
    LET sc == bridge_cache.scene_cache
        lc == bridge_cache.level_cache
        scene == IF e.room_id \in DOMAIN sc THEN sc[e.room_id] ELSE 0
        key == <<e.room_id, e.channel_id, scene>>
    IN  IF e.kind = "room" THEN convert_to_brightness(scene)
        ELSE IF key \in DOMAIN lc THEN lc[key] ELSE 0

\* C15: the light setup fetches the cache snapshot exactly once, as its first
\* step: before the fetch there is no discovery attempt and no adapter, no retry
\* fetches it again, and every adapter of every attempt has the initial
\* brightness that this snapshot gives.
C15_CacheFetchedOnce ==
    /\ l_pc = "start" => l_log = <<>> /\ l_started = 0 /\ hass_lights = <<>>
    /\ l_pc # "start" =>
         /\ Logged("get_cache_state") = {1}
         /\ \A k \in Logged("attempt") : k > 1
         /\ level_cache = bridge_cache.level_cache
         /\ scene_cache = bridge_cache.scene_cache
    /\ \A k \in 1..Len(hass_lights) :
         hass_lights[k].brightness = FromSnapshot(hass_lights[k])

\* C15 witness: the third attempt completed and an adapter built in an earlier,
\* failed attempt has the brightness 180 of the snapshot.
C15_Witness ==
    /\ l_pc = "added" /\ l_started = 3
    /\ Len(hass_lights) > Len(l_pass)
    /\ \E k \in 1..(Len(hass_lights) - Len(l_pass)) :
         hass_lights[k].kind = "channel" /\ hass_lights[k].brightness = 180
    /\ Cardinality(Logged("get_cache_state")) = 1

\* C16: the light setup waits 1 time unit after a failed attempt that is not the
\* third, and the next attempt follows that wait; it waits nowhere else: not
\* before the first attempt, not after an attempt that completed, and not after
\* the third failed attempt, where the error is raised at once.
C16_WaitBetweenAttempts ==
    /\ \A k \in Logged("sleep") :
         /\ l_log[k].n = 1
         /\ k > 1 /\ l_log[k - 1].ev = "fail" /\ l_log[k - 1].n < 3
         /\ k < Len(l_log) => l_log[k + 1].ev = "attempt"
    /\ \A k \in Logged("fail") :
         /\ k < Len(l_log)
         /\ l_log[k + 1].ev = IF l_log[k].n < 3 THEN "sleep" ELSE "raise"
    /\ \A k \in Logged("attempt") :
         /\ k > 1
         /\ l_log[k - 1].ev = IF l_log[k].n = 1 THEN "get_cache_state" ELSE "sleep"
    /\ \A k \in Logged("async_add_entities") \cup Logged("raise") : k = Len(l_log)
    /\ \A k \in Logged("async_add_entities") : l_log[k - 1].ev = "attempt"

\* C16 witness: three attempts failed; the setup waited twice and then raised.
C16_Witness ==
    /\ l_pc = "raised"
    /\ Cardinality(Logged("sleep")) = 2
    /\ Cardinality(Logged("fail")) = 3
    /\ l_log[Len(l_log) - 1].ev = "fail"

\* call c starts or ends in this step
ActsNow(c) ==
    \/ c > Len(calls) /\ c <= Len(calls')
    \/ c <= Len(calls) /\ calls'[c].pc # calls[c].pc

\* C17: the brightness of a light changes only in a step that starts a turn_on or
\* turn_off on that light, and its available flag only in a step of one of its
\* own calls; a step of an activate call leaves every other adapter, every other
\* adapter's trace and the caches unchanged, and changes nothing of the scene
\* adapter but its available flag.
C17_Frame ==
    [][/\ \A i \in 1..Len(entities) :
            IsLight(i) =>
              /\ entities'[i].brightness # entities[i].brightness =>
                   \E c \in (Len(calls) + 1)..Len(calls') :
                       calls'[c].entity = i /\ calls'[c].op \in {"turn_on", "turn_off"}
              /\ entities'[i].available # entities[i].available =>
                   \E c \in 1..Len(calls') :
                       /\ ActsNow(c)
                       /\ calls'[c].entity = i
                       /\ calls'[c].op \in {"turn_on", "turn_off"}
       /\ \A c \in 1..Len(calls') :
            ActsNow(c) /\ calls'[c].op = "activate" =>
              LET s == calls'[c].entity
              IN  /\ \A j \in 1..Len(entities) :
                       j # s => entities'[j] = entities[j] /\ events'[j] = events[j]
                  /\ entities'[s] = [entities[s] EXCEPT !.available = entities'[s].available]
                  /\ level_cache' = level_cache /\ scene_cache' = scene_cache
    ]_vars

\* C17 witness: the room light of room 1 was set to 100 and a scene of room 1 was
\* activated afterwards and failed; the room light is still at 100 and available.
C17_Witness ==
    /\ Len(calls) = 2
    /\ calls[1].op = "turn_on" /\ calls[1].brightness = 100 /\ calls[1].pc = "returned"
    /\ entities[calls[1].entity].kind = "room"
    /\ ResultOf(1) = "ok"
    /\ calls[2].op = "activate" /\ calls[2].pc = "returned"
    /\ ResultOf(2) = "TimeoutError"
    /\ entities[calls[2].entity].room_id = entities[calls[1].entity].room_id
    /\ ~entities[calls[2].entity].available
    /\ entities[calls[1].entity].brightness = 100
    /\ entities[calls[1].entity].available

\* the calls started on adapter i, and the last of them
CallsOn(i) == {c \in 1..Len(calls) : calls[c].entity = i}
LastStartedOn(i) == CHOOSE c \in CallsOn(i) : \A d \in CallsOn(i) : d <= c

\* the positions of the outcomes in the trace of adapter i, in order of completion
OutcomesOf(i) == {k \in 1..Len(events[i]) : events[i][k].ev = "outcome"}
LastOutcomeOf(i) == events[i][CHOOSE k \in OutcomesOf(i) : \A j \in OutcomesOf(i) : j <= k]

C19_AvailableIsLastCompleted ==
    \A i \in 1..Len(entities) :
        (\A c \in CallsOn(i) : calls[c].pc # "awaiting") =>
            (entities[i].available <=>
                (OutcomesOf(i) = {} \/ LastOutcomeOf(i).result = "ok"))

\* C19 witness: two calls on the channel light overlapped; the second one issued
\* succeeded first, the first one issued timed out last: the light is unavailable.
C19_Witness ==
    /\ Len(calls) = 2
    /\ calls[1].entity = calls[2].entity
    /\ entities[calls[1].entity].kind = "channel"
    /\ calls[1].pc = "returned" /\ calls[2].pc = "returned"
    /\ ResultOf(2) = "ok" /\ ResultOf(1) = "TimeoutError"
    /\ LET i == calls[1].entity
       IN  /\ \A j \in EventsOf(i, "outcome", 1), k \in EventsOf(i, "outcome", 2) : k < j
           /\ ~entities[i].available

\* the registry of the integration, empty when hass.data has no key for it
RegistryOf(data) == IF "rako" \in DOMAIN data THEN data["rako"] ELSE <<>>

\* the operation made in this step, if it is op on entry e returning ok
Did(op, e, ok) ==
    /\ Len(reg_log') = Len(reg_log) + 1
    /\ reg_log'[Len(reg_log')] = [op |-> op, entry |-> e.entry_id, ok |-> ok]

\* C20: in every sequence of setups and unloads, a setup stores the entry's bridge
\* under its MAC and leaves the other registry entries as they were; a successful
\* unload removes the key entry.unique_id, which is the MAC the setup wrote, and
\* nothing else; an unsuccessful unload changes nothing; and hass.data holds
\* the registry exactly while it has an entry.
C20_Registry ==
    [][/\ \A e \in ConfigEntries :
            LET before == RegistryOf(hass_data)
                after == RegistryOf(hass_data')
                others == (DOMAIN before) \ {e.mac}
            IN  /\ Did("setup", e, TRUE) =>
                     /\ DOMAIN after = (DOMAIN before) \cup {e.mac}
                     /\ after[e.mac].rako_bridge_client.mac = e.mac
                     /\ after[e.mac].rako_bridge_client.entry_id = e.entry_id
                     /\ \A m \in others : after[m] = before[m]
                /\ ~Did("setup", e, FALSE)
                /\ Did("unload", e, TRUE) =>
                     /\ e.unique_id = e.mac
                     /\ e.mac \in DOMAIN before
                     /\ before[e.mac].rako_bridge_client.entry_id = e.entry_id
                     /\ DOMAIN after = others
                     /\ \A m \in others : after[m] = before[m]
                /\ Did("unload", e, FALSE) => hass_data' = hass_data
       /\ "rako" \in DOMAIN hass_data' <=> DOMAIN RegistryOf(hass_data') # {}
    ]_vars

\* C20 witness: two bridges were set up, the first was unloaded and its entry
\* alone removed, then the second was unloaded and the registry itself removed.
C20_Witness ==
    /\ Len(reg_log) = 4
    /\ reg_log[1].op = "setup" /\ reg_log[2].op = "setup"
    /\ reg_log[3] = [op |-> "unload", entry |-> 1, ok |-> TRUE]
    /\ reg_log[4] = [op |-> "unload", entry |-> 2, ok |-> TRUE]
    /\ loaded = {}
    /\ "rako" \notin DOMAIN hass_data

====
